---- MODULE Spec2Model ----
(***************************************************************************)
(* Model of exercise_topic_12.py: the assistant bot's address book         *)
(* (Field, Phone, Birthday, Record, AddressBook), its command handlers     *)
(* with the input_error decorator, persistence and the main loop.          *)
(*                                                                         *)
(* Python strings are TLA+ strings, lists are sequences, None is the empty *)
(* tuple.  A date is the tuple <<year, month, day>>.  An AddressBook is    *)
(* the sequence of its Records in dict (insertion) order.  A call that may *)
(* raise yields a record [exc, val]: exc is "None" and val the returned    *)
(* value, or exc is the exception's class and val its message.             *)
(***************************************************************************)
EXTENDS Integers, Sequences, FiniteSets, TLC

VARIABLES
    book,    \* the in-memory AddressBook
    disk,    \* addressbook.pkl: <<>> when the file does not exist, else <<snapshot>>
    pc,      \* "input" in input(), "printed" after a reply, "done" after the loop,
             \* "crashed" on a traceback
    exc,     \* class of the exception that ended the process, "None" otherwise
    cmd,     \* command (or method) of the turn in progress
    args,    \* its argument list
    reply,   \* the string the turn printed
    ret,     \* outcome [exc, val] of the method a client called
    pre,     \* the AddressBook as the turn found it
    today    \* the date datetime.today() gave during the turn, None if not read

vars == <<book, disk, pc, exc, cmd, args, reply, ret, pre, today>>

None == <<>>

-----------------------------------------------------------------------------
(* Bounds of the model *)

\* longest phone list a record is grown to
MaxPhones == 2

-----------------------------------------------------------------------------
(* Strings *)

Ch(s, i) == SubSeq(s, i, i)

DigitChars == "0123456789"

UpperChars == "ABCDEFGHIJKLMNOPQRSTUVWXYZ"

LowerChars == "abcdefghijklmnopqrstuvwxyz"

IsDigitChar(c) == \E i \in 1..Len(DigitChars) : Ch(DigitChars, i) = c

\* str.isdigit: non-empty and every character a digit
isdigit(s) == Len(s) > 0 /\ \A i \in 1..Len(s) : IsDigitChar(Ch(s, i))

DigitVal(c) == (CHOOSE i \in 1..Len(DigitChars) : Ch(DigitChars, i) = c) - 1

RECURSIVE ToInt(_)
\* int() of a string of digits
ToInt(s) == IF Len(s) = 0 THEN 0
            ELSE 10 * ToInt(SubSeq(s, 1, Len(s) - 1)) + DigitVal(Ch(s, Len(s)))

RECURSIVE ToStr(_)
\* str() of a natural number
ToStr(n) == IF n < 10 THEN Ch(DigitChars, n + 1)
            ELSE ToStr(n \div 10) \o Ch(DigitChars, (n % 10) + 1)

RECURSIVE ZeroPad(_, _)
\* a natural number in at least w digits, zero-padded (strftime's %d, %m, %Y)
ZeroPad(n, w) == IF w <= 1 THEN ToStr(n)
                 ELSE IF Len(ToStr(n)) >= w THEN ToStr(n)
                 ELSE "0" \o ZeroPad(n, w - 1)

LowerChar(c) == IF \E i \in 1..Len(UpperChars) : Ch(UpperChars, i) = c
                THEN Ch(LowerChars, CHOOSE i \in 1..Len(UpperChars) : Ch(UpperChars, i) = c)
                ELSE c

RECURSIVE lower(_)
\* str.lower
lower(s) == IF Len(s) = 0 THEN "" ELSE LowerChar(Ch(s, 1)) \o lower(Tail(s))

RECURSIVE split(_, _)
\* str.split(): the maximal runs of non-blank characters; w is the run being read
split(s, w) ==
    IF Len(s) = 0 THEN (IF Len(w) = 0 THEN <<>> ELSE <<w>>)
    ELSE IF Ch(s, 1) = " "
         THEN (IF Len(w) = 0 THEN <<>> ELSE <<w>>) \o split(Tail(s), "")
         ELSE split(Tail(s), w \o Ch(s, 1))

RECURSIVE join(_, _)
\* sep.join(parts)
join(sep, parts) ==
    IF Len(parts) = 0 THEN ""
    ELSE IF Len(parts) = 1 THEN parts[1]
    ELSE parts[1] \o sep \o join(sep, Tail(parts))

\* position of the first c in s, 0 if there is none
FirstIndex(s, c) ==
    IF \E i \in 1..Len(s) : Ch(s, i) = c
    THEN CHOOSE i \in 1..Len(s) : Ch(s, i) = c /\ \A j \in 1..(i - 1) : Ch(s, j) # c
    ELSE 0

-----------------------------------------------------------------------------
(* datetime.date *)

IsLeap(y) == (y % 4 = 0) /\ ((y % 100 # 0) \/ (y % 400 = 0))

DaysInMonth(y, m) ==
    IF m = 2 THEN (IF IsLeap(y) THEN 29 ELSE 28)
    ELSE IF m \in {4, 6, 9, 11} THEN 30 ELSE 31

\* the (year, month, day) triples date() accepts
ValidDate(y, m, d) ==
    /\ y \in 1..9999
    /\ m \in 1..12
    /\ d \in 1..DaysInMonth(y, m)

RECURSIVE DaysBeforeMonth(_, _)
DaysBeforeMonth(y, m) ==
    IF m <= 1 THEN 0 ELSE DaysBeforeMonth(y, m - 1) + DaysInMonth(y, m - 1)

\* date.toordinal
toordinal(dt) ==
    LET y == dt[1] - 1
    IN  y * 365 + (y \div 4) - (y \div 100) + (y \div 400)
        + DaysBeforeMonth(dt[1], dt[2]) + dt[3]

\* date.replace(year=y): ValueError when the day does not exist in that year
replace_year(dt, y) ==
    IF ValidDate(y, dt[2], dt[3])
    THEN [exc |-> "None", val |-> <<y, dt[2], dt[3]>>]
    ELSE [exc |-> "ValueError", val |-> "day is out of range for month"]

\* date.strftime("%d.%m.%Y")
strftime(dt) == ZeroPad(dt[3], 2) \o "." \o ZeroPad(dt[2], 2) \o "." \o ZeroPad(dt[1], 4)

\* datetime.strptime(value, "%d.%m.%Y").date(): day and month of one or two
\* digits, a year of four, separated by dots, naming a date that exists
strptime(value) ==
    LET i    == FirstIndex(value, ".")
        rest == SubSeq(value, i + 1, Len(value))
        j    == FirstIndex(rest, ".")
        dd   == SubSeq(value, 1, i - 1)
        mm   == SubSeq(rest, 1, j - 1)
        yyyy == SubSeq(rest, j + 1, Len(rest))
        bad  == [exc |-> "ValueError",
                 val |-> "time data does not match format '%d.%m.%Y'"]
    IN  IF i = 0 THEN bad
        ELSE IF j = 0 THEN bad
        ELSE IF ~(isdigit(dd) /\ Len(dd) <= 2 /\ isdigit(mm) /\ Len(mm) <= 2
                  /\ isdigit(yyyy) /\ Len(yyyy) = 4) THEN bad
        ELSE IF ~ValidDate(ToInt(yyyy), ToInt(mm), ToInt(dd)) THEN bad
        ELSE [exc |-> "None", val |-> <<ToInt(yyyy), ToInt(mm), ToInt(dd)>>]

-----------------------------------------------------------------------------
(* Outcomes of calls *)

Return(v) == [exc |-> "None", val |-> v]

Raise(e, msg) == [exc |-> e, val |-> msg]

-----------------------------------------------------------------------------
(* Fields *)

PhoneLen == 10

\* Phone._validate
Phone_validate(value) == isdigit(value) /\ Len(value) = PhoneLen

\* Phone.__init__: the stored value, or ValueError
Phone(value) ==
    IF ~Phone_validate(value)
    THEN Raise("ValueError", "Phone number must contain exactly 10 digits.")
    ELSE Return(value)

\* Birthday.__init__: the stored date, or ValueError
Birthday(value) ==
    IF strptime(value).exc = "ValueError"
    THEN Raise("ValueError", "Invalid date format. Use DD.MM.YYYY")
    ELSE Return(strptime(value).val)

-----------------------------------------------------------------------------
(* Record.  A method yields [exc, val, rec]: its outcome and the record    *)
(* as the call leaves it.                                                  *)

\* Record.__init__
Record(name) == [name |-> name, phones |-> <<>>, birthday |-> None]

\* Record.add_phone
add_phone(rec, phone) ==
    LET p == Phone(phone)
    IN  IF p.exc # "None" THEN [exc |-> p.exc, val |-> p.val, rec |-> rec]
        ELSE [exc |-> "None", val |-> None,
              rec |-> [rec EXCEPT !.phones = Append(@, p.val)]]

\* edit_phone without the return in its loop: every match is replaced
edit_phone_every(rec, old_phone, new_phone) ==
    LET hits == {i \in 1..Len(rec.phones) : rec.phones[i] = old_phone}
        p    == Phone(new_phone)
    IN  IF hits = {}
        THEN [exc |-> "ValueError", val |-> "Phone " \o old_phone \o " not found.",
              rec |-> rec]
        ELSE IF p.exc # "None" THEN [exc |-> p.exc, val |-> p.val, rec |-> rec]
        ELSE [exc |-> "None", val |-> None,
              rec |-> [rec EXCEPT !.phones =
                          [k \in 1..Len(rec.phones) |->
                              IF k \in hits THEN p.val ELSE rec.phones[k]]]]

\* Record.edit_phone
edit_phone(rec, old_phone, new_phone) ==
    LET hits == {i \in 1..Len(rec.phones) : rec.phones[i] = old_phone}
        i    == CHOOSE k \in hits : \A h \in hits : k <= h
        p    == Phone(new_phone)
    IN  IF hits = {}
        THEN [exc |-> "ValueError", val |-> "Phone " \o old_phone \o " not found.",
              rec |-> rec]
        ELSE IF p.exc # "None" THEN [exc |-> p.exc, val |-> p.val, rec |-> rec]
        ELSE [exc |-> "None", val |-> None,
              rec |-> [rec EXCEPT !.phones[i] = p.val]]

\* Record.remove_phone
remove_phone(rec, phone) ==
    LET keep(p) == p # phone
    IN  [exc |-> "None", val |-> None,
         rec |-> [rec EXCEPT !.phones = SelectSeq(@, keep)]]

\* Record.add_birthday
add_birthday_rec(rec, bday) ==
    LET b == Birthday(bday)
    IN  IF b.exc # "None" THEN [exc |-> b.exc, val |-> b.val, rec |-> rec]
        ELSE [exc |-> "None", val |-> None, rec |-> [rec EXCEPT !.birthday = b.val]]

\* date.__lt__
DateLT(a, b) ==
    \/ a[1] < b[1]
    \/ a[1] = b[1] /\ a[2] < b[2]
    \/ a[1] = b[1] /\ a[2] = b[2] /\ a[3] < b[3]

\* the birthday's next occurrence as both methods compute it from the clock's
\* date now: this year's date, next year's when that is before now
next_birthday(birthday, now) ==
    LET this == replace_year(birthday, now[1])
    IN  IF this.exc # "None" THEN this
        ELSE IF DateLT(this.val, now) THEN replace_year(this.val, now[1] + 1)
        ELSE this

\* Record.days_to_birthday, with now the date datetime.today() gives
days_to_birthday(rec, now) ==
    IF rec.birthday = None THEN Return(None)
    ELSE LET nb == next_birthday(rec.birthday, now)
         IN  IF nb.exc # "None" THEN nb
             ELSE Return(toordinal(nb.val) - toordinal(now))

\* Record.__str__
Record_str(rec) ==
    LET phones == join(", ", rec.phones)
        bday   == IF rec.birthday # None THEN strftime(rec.birthday) ELSE "N/A"
    IN  rec.name \o ": phones: [" \o phones \o "], birthday: " \o bday

-----------------------------------------------------------------------------
(* AddressBook *)

\* position of the record stored under name, 0 if there is none
Slot(b, name) ==
    IF \E i \in 1..Len(b) : b[i].name = name
    THEN CHOOSE i \in 1..Len(b) : b[i].name = name
    ELSE 0

\* AddressBook.add_record: a new key goes last, an existing key keeps its place
add_record(b, record) ==
    IF Slot(b, record.name) = 0 THEN Append(b, record)
    ELSE [b EXCEPT ![Slot(b, record.name)] = record]

\* AddressBook.find
find(b, name) == IF Slot(b, name) = 0 THEN None ELSE b[Slot(b, name)]

\* AddressBook.delete
delete(b, name) ==
    LET keep(r) == r.name # name
    IN  SelectSeq(b, keep)

\* the book after a method changed, in place, the record it holds under rec.name
Mutated(b, rec) == [b EXCEPT ![Slot(b, rec.name)] = rec]

RECURSIVE upcoming_loop(_, _, _)
\* the for-loop of get_upcoming_birthdays over the records still to visit
upcoming_loop(recs, now, upcoming) ==
    IF Len(recs) = 0 THEN Return(upcoming)
    ELSE LET rec == Head(recs)
             nb  == next_birthday(rec.birthday, now)
             days == toordinal(nb.val) - toordinal(now)
         IN  IF rec.birthday = None THEN upcoming_loop(Tail(recs), now, upcoming)
             ELSE IF nb.exc # "None" THEN nb
             ELSE IF 0 <= days /\ days <= 7
                  THEN upcoming_loop(Tail(recs), now,
                                     Append(upcoming, <<rec.name, strftime(nb.val)>>))
                  ELSE upcoming_loop(Tail(recs), now, upcoming)

\* AddressBook.get_upcoming_birthdays, with now the date datetime.today() gives
get_upcoming_birthdays(b, now) == upcoming_loop(b, now, <<>>)

-----------------------------------------------------------------------------
(* Command handlers.  A handler yields [book, exc, val]: the book as the   *)
(* call leaves it and the call's outcome.                                  *)

\* input_error with the except AttributeError clause left out
input_error_no_attribute(r) ==
    IF r.exc = "None" THEN r
    ELSE IF r.exc = "IndexError"
         THEN [r EXCEPT !.exc = "None",
                        !.val = "Error: Not enough arguments. Please check your command format."]
    ELSE IF r.exc = "ValueError"
         THEN [r EXCEPT !.exc = "None", !.val = "Error: " \o r.val]
    ELSE IF r.exc = "KeyError"
         THEN [r EXCEPT !.exc = "None", !.val = "Error: Contact not found."]
    ELSE IF r.exc = "TypeError"
         THEN [r EXCEPT !.exc = "None",
                        !.val = "Error: Incorrect command format. Try again."]
    ELSE r

\* input_error.wrapper applied to the outcome r of the wrapped function:
\* the five caught classes become messages, any other exception propagates
input_error(r) ==
    IF r.exc = "None" THEN r
    ELSE IF r.exc = "IndexError"
         THEN [r EXCEPT !.exc = "None",
                        !.val = "Error: Not enough arguments. Please check your command format."]
    ELSE IF r.exc = "ValueError"
         THEN [r EXCEPT !.exc = "None", !.val = "Error: " \o r.val]
    ELSE IF r.exc = "KeyError"
         THEN [r EXCEPT !.exc = "None", !.val = "Error: Contact not found."]
    ELSE IF r.exc = "AttributeError"
         THEN [r EXCEPT !.exc = "None",
                        !.val = "Error: Contact not found. Please add it first."]
    ELSE IF r.exc = "TypeError"
         THEN [r EXCEPT !.exc = "None",
                        !.val = "Error: Incorrect command format. Try again."]
    ELSE r

\* the ValueError of unpacking got values into n targets before a starred one
UnpackAtLeast(n, got) ==
    "not enough values to unpack (expected at least " \o ToStr(n)
        \o ", got " \o ToStr(got) \o ")"

\* the ValueError of unpacking got values into exactly n targets
UnpackExactly(n, got) ==
    IF got < n
    THEN "not enough values to unpack (expected " \o ToStr(n)
             \o ", got " \o ToStr(got) \o ")"
    ELSE "too many values to unpack (expected " \o ToStr(n) \o ")"

NoAttribute(attr) == "'NoneType' object has no attribute '" \o attr \o "'"

\* add_contact making a fresh Record under the name whether or not one exists
add_contact_fresh(a, b) ==
    IF Len(a) < 2
    THEN [book |-> b, exc |-> "ValueError", val |-> UnpackAtLeast(2, Len(a))]
    ELSE LET name    == a[1]
             phone   == a[2]
             found   == find(b, name)
             record  == Record(name)
             b1      == add_record(b, record)
             message == IF found = None THEN "Contact added." ELSE "Contact updated."
             r       == add_phone(record, phone)
         IN  IF Len(phone) = 0 THEN [book |-> b1, exc |-> "None", val |-> message]
             ELSE IF r.exc # "None" THEN [book |-> b1, exc |-> r.exc, val |-> r.val]
             ELSE [book |-> Mutated(b1, r.rec), exc |-> "None", val |-> message]

\* body of add_contact
add_contact_body(a, b) ==
    IF Len(a) < 2
    THEN [book |-> b, exc |-> "ValueError", val |-> UnpackAtLeast(2, Len(a))]
    ELSE LET name    == a[1]
             phone   == a[2]
             found   == find(b, name)
             record  == IF found = None THEN Record(name) ELSE found
             b1      == IF found = None THEN add_record(b, record) ELSE b
             message == IF found = None THEN "Contact added." ELSE "Contact updated."
             r       == add_phone(record, phone)
         IN  IF Len(phone) = 0 THEN [book |-> b1, exc |-> "None", val |-> message]
             ELSE IF r.exc # "None" THEN [book |-> b1, exc |-> r.exc, val |-> r.val]
             ELSE [book |-> Mutated(b1, r.rec), exc |-> "None", val |-> message]

add_contact(a, b) == input_error(add_contact_body(a, b))

\* body of change_contact
change_contact_body(a, b) ==
    IF Len(a) < 3
    THEN [book |-> b, exc |-> "ValueError", val |-> UnpackAtLeast(3, Len(a))]
    ELSE LET record == find(b, a[1])
             r      == edit_phone(record, a[2], a[3])
         IN  IF record = None
             THEN [book |-> b, exc |-> "AttributeError", val |-> NoAttribute("edit_phone")]
             ELSE IF r.exc # "None" THEN [book |-> b, exc |-> r.exc, val |-> r.val]
             ELSE [book |-> Mutated(b, r.rec), exc |-> "None", val |-> "Phone updated."]

change_contact(a, b) == input_error(change_contact_body(a, b))

\* body of show_phone
show_phone_body(a, b) ==
    IF Len(a) = 0
    THEN [book |-> b, exc |-> "IndexError", val |-> "list index out of range"]
    ELSE LET record == find(b, a[1])
         IN  IF record = None
             THEN [book |-> b, exc |-> "AttributeError", val |-> NoAttribute("phones")]
             ELSE [book |-> b, exc |-> "None", val |-> join(", ", record.phones)]

show_phone(a, b) == input_error(show_phone_body(a, b))

\* body of show_all
show_all_body(b) ==
    IF Len(b) = 0 THEN [book |-> b, exc |-> "None", val |-> "No contacts found."]
    ELSE [book |-> b, exc |-> "None",
          val |-> join("\n", [i \in 1..Len(b) |-> Record_str(b[i])])]

show_all(b) == input_error(show_all_body(b))

\* body of add_birthday
add_birthday_body(a, b) ==
    IF Len(a) # 2
    THEN [book |-> b, exc |-> "ValueError", val |-> UnpackExactly(2, Len(a))]
    ELSE LET name   == a[1]
             bday   == a[2]
             found  == find(b, name)
             record == IF found = None THEN Record(name) ELSE found
             b1     == IF found = None THEN add_record(b, record) ELSE b
             r      == add_birthday_rec(record, bday)
         IN  IF r.exc # "None" THEN [book |-> b1, exc |-> r.exc, val |-> r.val]
             ELSE [book |-> Mutated(b1, r.rec), exc |-> "None",
                   val |-> "Birthday added for " \o name]

add_birthday(a, b) == input_error(add_birthday_body(a, b))

\* body of show_birthday
show_birthday_body(a, b) ==
    IF Len(a) = 0
    THEN [book |-> b, exc |-> "IndexError", val |-> "list index out of range"]
    ELSE LET record == find(b, a[1])
         IN  IF record = None
             THEN [book |-> b, exc |-> "AttributeError", val |-> NoAttribute("birthday")]
             ELSE IF record.birthday = None
             THEN [book |-> b, exc |-> "AttributeError", val |-> NoAttribute("value")]
             ELSE [book |-> b, exc |-> "None", val |-> strftime(record.birthday)]

show_birthday(a, b) == input_error(show_birthday_body(a, b))

\* body of birthdays, with now the date datetime.today() gives
birthdays_body(a, b, now) ==
    LET upcoming == get_upcoming_birthdays(b, now)
    IN  IF upcoming.exc # "None"
        THEN [book |-> b, exc |-> upcoming.exc, val |-> upcoming.val]
        ELSE IF Len(upcoming.val) = 0
        THEN [book |-> b, exc |-> "None", val |-> "No birthdays in the next week."]
        ELSE [book |-> b, exc |-> "None",
              val |-> join("\n", [i \in 1..Len(upcoming.val) |->
                         upcoming.val[i][1] \o ": " \o upcoming.val[i][2]])]

birthdays(a, b, now) == input_error(birthdays_body(a, b, now))

\* parse_input
parse_input(user_input) ==
    LET parts == split(user_input, "")
    IN  IF Len(parts) = 0 THEN [cmd |-> "", args |-> <<>>]
        ELSE [cmd |-> lower(parts[1]), args |-> Tail(parts)]

-----------------------------------------------------------------------------
(* Persistence *)

\* save_data: the file as pickle.dump leaves it, a snapshot of the whole book
save_data(b) == <<b>>

\* load_data: the unpickled snapshot, an empty AddressBook when there is no file
load_data(file) == IF Len(file) = 0 THEN <<>> ELSE file[1]

-----------------------------------------------------------------------------
(* Inputs *)

Names == {"alice", "bob"}

ValidPhones == {"1111111111", "2222222222"}

\* phone tokens: two valid ones, one too short, one of ten characters not all digits
PhoneTokens == ValidPhones \cup {"12345", "12345abcde"}

\* birthday tokens: a 29 February, a 1 January, a day that does not exist,
\* a date in another format
DateTokens == {"29.02.2000", "01.01.2000", "31.02.2000", "2000-01-01"}

\* dates the clock may show: before a 29 February of a leap year; 8, 7 and
\* 1 days before a 1 January; a 1 January of a common year
Todays == {<<2024, 2, 25>>, <<2024, 12, 24>>, <<2024, 12, 25>>,
           <<2024, 12, 31>>, <<2025, 1, 1>>}

AddArgs ==
    {<<>>} \cup {<<n>> : n \in Names}
    \cup {<<n, p>> : n \in Names, p \in PhoneTokens}
    \cup {<<n, "1111111111", "x">> : n \in Names}

ChangeArgs ==
    {<<>>} \cup {<<n>> : n \in Names}
    \cup {<<n, o>> : n \in Names, o \in ValidPhones}
    \cup {<<n, o, p>> : n \in Names, o \in ValidPhones, p \in PhoneTokens}
    \cup {<<n, "1111111111", "2222222222", "x">> : n \in Names}

NameArgs == {<<>>} \cup {<<n>> : n \in Names} \cup {<<n, "x">> : n \in Names}

AddBirthdayArgs ==
    {<<>>} \cup {<<n>> : n \in Names}
    \cup {<<n, d>> : n \in Names, d \in DateTokens}
    \cup {<<n, "01.01.2000", "x">> : n \in Names}

NoArgs == {<<>>, <<"x">>}

\* a command word and its arguments typed as one line
LineOf(word, a) == join(" ", <<word>> \o a)

\* the lines a user may type
Lines ==
    {LineOf("add", a) : a \in AddArgs}
    \cup {LineOf("change", a) : a \in ChangeArgs}
    \cup {LineOf("phone", a) : a \in NameArgs}
    \cup {LineOf("add-birthday", a) : a \in AddBirthdayArgs}
    \cup {LineOf("show-birthday", a) : a \in NameArgs}
    \cup {LineOf(w, a) : w \in {"hello", "all", "birthdays", "close", "exit", "remove"},
                         a \in NoArgs}
    \cup {"", "   ", "  ADD   alice  1111111111 ", "Exit", "Show-Birthday bob"}

\* what parse_input makes of them
ParsedLines == {parse_input(l) : l \in Lines}

Typed(word) == {p.args : p \in {q \in ParsedLines : q.cmd = word}}

-----------------------------------------------------------------------------
(* main *)

\* main up to its first input(): nothing has written addressbook.pkl, so
\* load_data gives an empty AddressBook
Init ==
    /\ disk = <<>>
    /\ book = load_data(disk)
    /\ pc = "input"
    /\ exc = "None"
    /\ cmd = ""
    /\ args = <<>>
    /\ reply = ""
    /\ ret = Return(None)
    /\ pre = book
    /\ today = None

\* the phone lists of b stay within the model's bound
Bounded(b) == \A i \in 1..Len(b) : Len(b[i].phones) <= MaxPhones

\* one turn of the loop on command word c with arguments a: out is what the
\* handler yields; a string is printed, an exception ends the process
Turn(c, a, out, now) ==
    /\ pc = "input"
    /\ Bounded(out.book)
    /\ cmd' = c
    /\ args' = a
    /\ pre' = book
    /\ book' = out.book
    /\ today' = now
    /\ IF out.exc = "None"
       THEN pc' = "printed" /\ exc' = "None" /\ reply' = out.val
       ELSE pc' = "crashed" /\ exc' = out.exc /\ reply' = reply
    /\ UNCHANGED <<disk, ret>>

Hello ==
    \E a \in Typed("hello") :
        Turn("hello", a, [book |-> book, exc |-> "None", val |-> "How can I help you?"], None)

Add == \E a \in Typed("add") : Turn("add", a, add_contact(a, book), None)

Change == \E a \in Typed("change") : Turn("change", a, change_contact(a, book), None)

ShowPhone == \E a \in Typed("phone") : Turn("phone", a, show_phone(a, book), None)

ShowAll == \E a \in Typed("all") : Turn("all", a, show_all(book), None)

AddBirthday ==
    \E a \in Typed("add-birthday") : Turn("add-birthday", a, add_birthday(a, book), None)

ShowBirthday ==
    \E a \in Typed("show-birthday") :
        Turn("show-birthday", a, show_birthday(a, book), None)

Birthdays ==
    \E a \in Typed("birthdays"), now \in Todays :
        Turn("birthdays", a, birthdays(a, book, now), now)

\* any other command word, the empty one of a blank line included
Invalid ==
    \E p \in ParsedLines :
        /\ p.cmd \notin {"close", "exit", "hello", "add", "change", "phone", "all",
                         "add-birthday", "show-birthday", "birthdays"}
        /\ Turn(p.cmd, p.args,
                [book |-> book, exc |-> "None", val |-> "Invalid command. Try again."], None)

\* close or exit: "Good bye!" and the loop breaks; main returns
CloseOrExit ==
    \E p \in ParsedLines :
        /\ p.cmd \in {"close", "exit"}
        /\ pc = "input"
        /\ cmd' = p.cmd
        /\ args' = p.args
        /\ pre' = book
        /\ reply' = "Good bye!"
        /\ pc' = "done"
        /\ today' = None
        /\ UNCHANGED <<book, disk, exc, ret>>

\* input() at end of input raises EOFError, which nothing in main catches
\* the while loop comes round to input(): the turn's locals are dead
LoopBack ==
    /\ pc = "printed"
    /\ pc' = "input"
    /\ cmd' = ""
    /\ args' = <<>>
    /\ reply' = ""
    /\ pre' = book
    /\ today' = None
    /\ UNCHANGED <<book, disk, exc, ret>>

EndOfInput ==
    /\ pc = "input"
    /\ pc' = "crashed"
    /\ exc' = "EOFError"
    /\ UNCHANGED <<book, disk, cmd, args, reply, ret, pre, today>>

Next ==
    \/ Hello
    \/ Add
    \/ Change
    \/ ShowPhone
    \/ ShowAll
    \/ AddBirthday
    \/ ShowBirthday
    \/ Birthdays
    \/ Invalid
    \/ CloseOrExit
    \/ LoopBack
    \/ EndOfInput

Spec == Init /\ [][Next]_vars

-----------------------------------------------------------------------------
(* The classes used directly: a client that holds an AddressBook and calls *)
(* the methods of the book and of the records in it.  pc is "idle" between *)
(* calls and "returned" when a call has come back with its outcome in ret. *)

LibInit ==
    /\ disk = <<>>
    /\ book = <<>>
    /\ pc = "idle"
    /\ exc = "None"
    /\ cmd = ""
    /\ args = <<>>
    /\ reply = ""
    /\ ret = Return(None)
    /\ pre = book
    /\ today = None

\* a call of method m with arguments a that leaves the book as b and comes
\* back with outcome r
Call(m, a, b, r, now) ==
    /\ pc = "idle"
    /\ Bounded(b)
    /\ pc' = "returned"
    /\ cmd' = m
    /\ args' = a
    /\ pre' = book
    /\ book' = b
    /\ ret' = [exc |-> r.exc, val |-> r.val]
    /\ today' = now
    /\ UNCHANGED <<disk, exc, reply>>

\* a call of a Record method on the record the book holds under name n
CallRecord(m, a, n, r, now) ==
    /\ find(book, n) # None
    /\ Call(m, a, Mutated(book, r.rec), r, now)

CallAddRecord ==
    \E n \in Names :
        Call("add_record", <<n>>, add_record(book, Record(n)), Return(None), None)

CallDelete ==
    \E n \in Names : Call("delete", <<n>>, delete(book, n), Return(None), None)

CallAddPhone ==
    \E n \in Names, p \in PhoneTokens :
        CallRecord("add_phone", <<n, p>>, n, add_phone(find(book, n), p), None)

CallEditPhone ==
    \E n \in Names, o \in ValidPhones, p \in PhoneTokens :
        CallRecord("edit_phone", <<n, o, p>>, n, edit_phone(find(book, n), o, p), None)

CallRemovePhone ==
    \E n \in Names, p \in ValidPhones :
        CallRecord("remove_phone", <<n, p>>, n, remove_phone(find(book, n), p), None)

CallAddBirthday ==
    \E n \in Names, d \in DateTokens :
        CallRecord("add_birthday", <<n, d>>, n, add_birthday_rec(find(book, n), d), None)

CallDaysToBirthday ==
    \E n \in Names, now \in Todays :
        /\ find(book, n) # None
        /\ Call("days_to_birthday", <<n>>, book, days_to_birthday(find(book, n), now), now)

CallUpcoming ==
    \E now \in Todays :
        Call("get_upcoming_birthdays", <<>>, book, get_upcoming_birthdays(book, now), now)

\* the client goes on to its next call
Resume ==
    /\ pc = "returned"
    /\ pc' = "idle"
    /\ cmd' = ""
    /\ args' = <<>>
    /\ ret' = Return(None)
    /\ pre' = book
    /\ today' = None
    /\ UNCHANGED <<book, disk, exc, reply>>

LibNext ==
    \/ CallAddRecord
    \/ CallDelete
    \/ CallAddPhone
    \/ CallEditPhone
    \/ CallRemovePhone
    \/ CallAddBirthday
    \/ CallDaysToBirthday
    \/ CallUpcoming
    \/ Resume

LibSpec == LibInit /\ [][LibNext]_vars

-----------------------------------------------------------------------------
(* Properties *)

\* number of tokens each command with arguments requires
Required(c) ==
    CASE c = "add" -> 2
      [] c = "change" -> 3
      [] c = "phone" -> 1
      [] c = "add-birthday" -> 2
      [] c = "show-birthday" -> 1
      [] OTHER -> 0

HandlerCommands ==
    {"add", "change", "phone", "all", "add-birthday", "show-birthday", "birthdays"}

StartsWith(s, prefix) ==
    Len(s) >= Len(prefix) /\ SubSeq(s, 1, Len(prefix)) = prefix

EndsWith(s, suffix) ==
    Len(s) >= Len(suffix) /\ SubSeq(s, Len(s) - Len(suffix) + 1, Len(s)) = suffix

NamesOf(b) == {b[i].name : i \in 1..Len(b)}

\* ordinal of the first date on or after now that has the month and day of
\* birthday, found among the years that follow (a 29 February recurs within 8)
NextOccurrence(birthday, now) ==
    LET years == {y \in now[1]..(now[1] + 8) :
                     /\ ValidDate(y, birthday[2], birthday[3])
                     /\ toordinal(<<y, birthday[2], birthday[3]>>) >= toordinal(now)}
        year  == CHOOSE y \in years : \A z \in years : y <= z
    IN  <<year, birthday[2], birthday[3]>>

DaysAway(birthday, now) == toordinal(NextOccurrence(birthday, now)) - toordinal(now)

RECURSIVE ExpectedUpcoming(_, _)
\* the entries the upcoming-birthdays query is to give for the records recs
ExpectedUpcoming(recs, now) ==
    IF Len(recs) = 0 THEN <<>>
    ELSE LET rec == Head(recs)
         IN  IF rec.birthday # None /\ DaysAway(rec.birthday, now) \in 0..7
             THEN <<<<rec.name, strftime(NextOccurrence(rec.birthday, now))>>>>
                      \o ExpectedUpcoming(Tail(recs), now)
             ELSE ExpectedUpcoming(Tail(recs), now)

\* C1: when the loop has ended on close or exit, the file holds the book:
\* load_data gives back the names, phones in order and birthdays in memory.
C1_SavedOnExit == pc = "done" => (disk = save_data(book) /\ load_data(disk) = book)

\* C2: end of input at the prompt ends the loop as close and exit do; the
\* process never dies of an uncaught EOFError.
C2_EndOfInputGraceful == ~(pc = "crashed" /\ exc = "EOFError")

\* C3: every command handler, on every argument list and every book, returns
\* a string that is printed; no exception of a handler ends the process.
C3_NoEscape ==
    cmd \in HandlerCommands =>
        /\ pc = "printed"
        /\ exc = "None"
        /\ reply \in STRING

C3_Witness ==
    /\ pc = "printed"
    /\ cmd = "birthdays"
    /\ \E i \in 1..Len(book) : book[i].birthday = <<2000, 2, 29>>
    /\ reply = "Error: day is out of range for month"

\* C4: add, change, phone, add-birthday and show-birthday with fewer tokens
\* than they require reply with the not-enough-arguments message.
C4_NotEnoughArguments ==
    (pc = "printed" /\ cmd \in HandlerCommands /\ Len(args) < Required(cmd)) =>
        reply = "Error: Not enough arguments. Please check your command format."

\* C5: add <name> <phone> with a valid phone replies "Contact added." exactly
\* when the name was new and "Contact updated." otherwise; the book then has
\* one record of that name, its phones the earlier ones with <phone> appended,
\* its birthday as before, every other record as before; phone <name> then
\* gives the comma-joined list, which ends in <phone>.
C5_AddValidPhone ==
    (pc = "printed" /\ cmd = "add" /\ Len(args) >= 2 /\ Phone_validate(args[2])) =>
        LET name  == args[1]
            phone == args[2]
            old   == find(pre, name)
            new   == find(book, name)
            shown == show_phone(<<name>>, book)
        IN  /\ reply = (IF old = None THEN "Contact added." ELSE "Contact updated.")
            /\ Cardinality({i \in 1..Len(book) : book[i].name = name}) = 1
            /\ new.name = name
            /\ new.phones = (IF old = None THEN <<>> ELSE old.phones) \o <<phone>>
            /\ new.birthday = (IF old = None THEN None ELSE old.birthday)
            /\ NamesOf(book) = NamesOf(pre) \cup {name}
            /\ \A m \in NamesOf(pre) \ {name} : find(book, m) = find(pre, m)
            /\ shown.exc = "None"
            /\ shown.val = join(", ", new.phones)
            /\ EndsWith(shown.val, phone)

C5_Witness ==
    /\ pc = "printed"
    /\ cmd = "add"
    /\ reply = "Contact updated."
    /\ Len(book) = 2
    /\ find(pre, args[1]).birthday # None
    /\ find(pre, args[1]).phones = <<"1111111111">>
    /\ find(book, args[1]).phones = <<"1111111111", "2222222222">>

\* C6: get_upcoming_birthdays gives, in the book's order, one (name, date)
\* entry for each record whose birthday next falls 0 to 7 days from today, the
\* date being that next occurrence, and nothing for any other record; so for
\* every stored birthday, a 29 February included.
C6_UpcomingBirthdays ==
    (pc = "returned" /\ cmd = "get_upcoming_birthdays") =>
        /\ ret.exc = "None"
        /\ ret.val = ExpectedUpcoming(book, today)

\* C7: days_to_birthday gives None for a record without a birthday, and
\* otherwise the number of days, 0 or more, from today to the first date on or
\* after today that has the birthday's day and month.
C7_DaysToBirthday ==
    (pc = "returned" /\ cmd = "days_to_birthday") =>
        LET rec == find(book, args[1])
        IN  /\ ret.exc = "None"
            /\ IF rec.birthday = None THEN ret.val = None
               ELSE ret.val >= 0 /\ ret.val = DaysAway(rec.birthday, today)

\* C8: edit_phone(old, new): with old among the phones and new valid, the
\* first phone equal to old becomes new and every other position, later
\* copies of old included, stays; with old absent it raises the not-found
\* error; with old present and new invalid it raises the invalid-phone error;
\* a call that raises leaves the phones as they were.
C8_EditPhone ==
    (pc = "returned" /\ cmd = "edit_phone") =>
        LET old   == find(pre, args[1])
            new   == find(book, args[1])
            hits  == {i \in 1..Len(old.phones) : old.phones[i] = args[2]}
            first == CHOOSE k \in hits : \A h \in hits : k <= h
        IN  IF hits = {}
            THEN /\ ret.exc = "ValueError"
                 /\ ret.val = "Phone " \o args[2] \o " not found."
                 /\ book = pre
            ELSE IF ~Phone_validate(args[3])
            THEN /\ ret.exc = "ValueError"
                 /\ ret.val = "Phone number must contain exactly 10 digits."
                 /\ book = pre
            ELSE /\ ret.exc = "None"
                 /\ Len(new.phones) = Len(old.phones)
                 /\ \A k \in 1..Len(old.phones) :
                        new.phones[k] = (IF k = first THEN args[3] ELSE old.phones[k])
                 /\ new.birthday = old.birthday
                 /\ Len(book) = Len(pre)
                 /\ \A i \in 1..Len(pre) : pre[i].name # args[1] => book[i] = pre[i]

C8_Witness ==
    /\ pc = "returned"
    /\ cmd = "edit_phone"
    /\ ret.exc = "None"
    /\ find(pre, args[1]).phones = <<"1111111111", "1111111111">>
    /\ find(book, args[1]).phones = <<"2222222222", "1111111111">>

\* C9: a command that replies with an error message leaves the address book
\* as it was: no record is created, removed or modified.
C9_ErrorLeavesBook ==
    (pc = "printed" /\ StartsWith(reply, "Error:")) => book = pre

\* C10: change, phone and show-birthday with enough arguments reply with a
\* contact-not-found message exactly when the book has no record of the name.
C10_NotFoundIffAbsent ==
    (pc = "printed" /\ cmd \in {"change", "phone", "show-birthday"}
        /\ Len(args) >= Required(cmd)) =>
        (StartsWith(reply, "Error: Contact not found.") <=> find(pre, args[1]) = None)

====
